---------------------------- MODULE Spec2Model ----------------------------
(***************************************************************************)
(* Model of the Hero and Projects components.                              *)
(*                                                                         *)
(* Hero owns two effects: the Three.js background scene (camera, one mesh, *)
(* renderer, a requestAnimationFrame loop guarded by the closure variable  *)
(* `mounted`, a window resize listener and a cleanup), and the creation of *)
(* one Howl audio handle stored in audioRef.  toggleAudio reads the value  *)
(* of `playing` captured by the render that created it, calls play() or    *)
(* pause() on the handle and queues the state update (p) => !p.            *)
(* Projects registers one staggered gsap.from tween per card element.      *)
(*                                                                         *)
(* Units: rotation angles are counted in thousandths of a radian, tween    *)
(* delays in hundredths of a second; a quotient w / h is kept as a reduced *)
(* fraction, with the JavaScript results Infinity (w / 0) and NaN (0 / 0). *)
(***************************************************************************)
EXTENDS Integers, Sequences, FiniteSets, TLC

\* ---- bounds of the model ----
MaxDim == 2        \* the drawing surface's clientWidth, clientHeight range over 0..MaxDim
MaxFrames == 3     \* frames drawn while mounted (caps the rotation counters)

\* ---- constants of the program ----
RotXStep == 6      \* mesh.rotation.x += 0.006
RotYStep == 10     \* mesh.rotation.y += 0.01
Stagger == 12      \* stagger: 0.12
NumProjects == 6   \* new Array(6)

Dims == 0..MaxDim

VARIABLES
    phase,          \* "init" (rendered, effects not yet run), "mounted", "unmounted"
    canvas,         \* canvasRef.current when the scene effect runs: "null" or "canvas"
    clientWidth,    \* canvas.clientWidth
    clientHeight,   \* canvas.clientHeight
    scene,          \* TRUE once scene, camera, renderer and mesh are constructed
    cameraAspect,   \* camera.aspect
    rendererSize,   \* the size last given to renderer.setSize
    rotationX,      \* mesh.rotation.x
    rotationY,      \* mesh.rotation.y
    mounted,        \* the closure variable `mounted` of the scene effect
    rafPending,     \* a callback handed to requestAnimationFrame has not fired yet
    resizeListener, \* onResize is registered on window
    contextLost,    \* renderer.forceContextLoss() has been called
    hasCleanup,     \* the scene effect returned a cleanup function
    playing,        \* the React state `playing` (queued updaters applied)
    view,           \* the last render: the value of `playing` that toggleAudio
                    \* closes over, the button's label and its aria-pressed
    audioRef,       \* audioRef.current: "null" or "howl"
    howlLoaded,     \* the asset of the Howl handle loads (FALSE: load error)
    howlPlaying,    \* the Howl handle is actually sounding
    howlsCreated,   \* number of Howl handles constructed
    cardsBound,     \* the scroll effect of Projects has run
    anims,          \* the tweens registered by gsap.from, in document order
    revealed        \* the scroll trigger has fired the entrance animation

sceneVars == <<scene, cameraAspect, rendererSize, rotationX, rotationY, mounted,
               rafPending, resizeListener, contextLost, hasCleanup>>
surfaceVars == <<canvas, clientWidth, clientHeight>>
audioVars == <<audioRef, howlLoaded, howlPlaying, howlsCreated>>
uiVars == <<playing, view>>
projVars == <<cardsBound, anims, revealed>>
vars == <<phase, surfaceVars, sceneVars, audioVars, uiVars, projVars>>

\* ------------------------------------------------------------------------
\* Pure helpers
\* ------------------------------------------------------------------------
RECURSIVE GCD(_, _)
GCD(a, b) == IF b = 0 THEN a ELSE GCD(b, a % b)

\* The JavaScript quotient w / h of two non-negative integers.
Div(w, h) ==
    IF h = 0
    THEN IF w = 0 THEN [kind |-> "NaN", num |-> 0, den |-> 0]
                  ELSE [kind |-> "Infinity", num |-> 1, den |-> 0]
    ELSE [kind |-> "finite", num |-> w \div GCD(w, h), den |-> h \div GCD(w, h)]

NoAspect == [kind |-> "none", num |-> 0, den |-> 0]

SetSize(w, h) == [width |-> w, height |-> h]

\* The guard `if (!canvas) return` of the scene effect.
SurfaceMissing_Ignored(c) == FALSE
SurfaceMissing_OrEmpty(c) == c = "null" \/ clientWidth = 0 \/ clientHeight = 0
SurfaceMissing(c) == c = "null"

\* One invocation of animate(): the liveness check, the two increments and
\* the request for the next frame.
Animate_Unguarded(m, rx, ry) ==
    [x |-> rx + RotXStep, y |-> ry + RotYStep, raf |-> TRUE]
Animate(m, rx, ry) ==
    IF ~m
    THEN [x |-> rx, y |-> ry, raf |-> FALSE]
    ELSE [x |-> rx + RotXStep, y |-> ry + RotYStep, raf |-> TRUE]

\* onResize: what the handler assigns, from the surface's current size.
OnResize_StaleAspect(w, h, oldAspect) ==
    [size |-> SetSize(w, h), aspect |-> oldAspect]
OnResize(w, h, oldAspect) ==
    [size |-> SetSize(w, h), aspect |-> Div(w, h)]

\* The cleanup returned by the scene effect.
Cleanup_KeepsListener == [mounted |-> FALSE, resizeListener |-> TRUE, contextLost |-> TRUE]
Cleanup == [mounted |-> FALSE, resizeListener |-> FALSE, contextLost |-> TRUE]

\* The state updater passed to setPlaying.
Updater_Stuck(p) == TRUE
Updater(p) == ~p

\* The button as rendered for a value of `playing`.
RenderView(p) ==
    [playing |-> p,
     label |-> IF p THEN "Pause audio" ELSE "Play audio",
     ariaPressed |-> p]

\* Howl.play() / Howl.pause(): a handle whose asset failed to load never sounds.
HowlPlay(loaded) == loaded
HowlPause == FALSE

\* PROJECTS and the card elements rendered from it.
PROJECTS == [i \in 1..NumProjects |->
                [id |-> i, title |-> "Project " \o ToString(i),
                 description |-> "Short description of the project and its treatment.",
                 date |-> "2024"]]
Cards == [i \in 1..Len(PROJECTS) |-> PROJECTS[i].id]

\* gsap.from(targets, {stagger}): one tween per target, the k-th target
\* (k from 0) delayed by k * stagger.
StaggerDelay_Flat(i) == Stagger
StaggerDelay(i) == (i - 1) * Stagger
GsapFrom(targets) ==
    [i \in 1..Len(targets) |-> [target |-> targets[i], delay |-> StaggerDelay(i)]]

\* ------------------------------------------------------------------------
\* Initial state: the first render is committed, no effect has run
\* ------------------------------------------------------------------------
Init ==
    /\ phase = "init"
    /\ canvas \in {"null", "canvas"}
    /\ clientWidth \in Dims
    /\ clientHeight \in Dims
    /\ (canvas = "null" => clientWidth = 0 /\ clientHeight = 0)
    /\ scene = FALSE
    /\ cameraAspect = NoAspect
    /\ rendererSize = SetSize(0, 0)
    /\ rotationX = 0
    /\ rotationY = 0
    /\ mounted = FALSE
    /\ rafPending = FALSE
    /\ resizeListener = FALSE
    /\ contextLost = FALSE
    /\ hasCleanup = FALSE
    /\ playing = FALSE
    /\ view = RenderView(FALSE)
    /\ audioRef = "null"
    /\ howlLoaded = FALSE
    /\ howlPlaying = FALSE
    /\ howlsCreated = 0
    /\ cardsBound = FALSE
    /\ anims = <<>>
    /\ revealed = FALSE

\* ------------------------------------------------------------------------
\* Hero
\* ------------------------------------------------------------------------
\* The first effect: builds the scene, runs animate() once, registers onResize.
SceneEffect ==
    IF SurfaceMissing(canvas)
    THEN UNCHANGED sceneVars
    ELSE LET a == Animate(TRUE, 0, 0) IN
         /\ scene' = TRUE
         /\ cameraAspect' = Div(clientWidth, clientHeight)
         /\ rendererSize' = SetSize(clientWidth, clientHeight)
         /\ mounted' = TRUE
         /\ rotationX' = a.x
         /\ rotationY' = a.y
         /\ rafPending' = a.raf
         /\ resizeListener' = TRUE
         /\ contextLost' = FALSE
         /\ hasCleanup' = TRUE

\* The second effect: constructs the Howl handle; it returns no cleanup.
AudioEffect(loads) ==
    /\ audioRef' = "howl"
    /\ howlLoaded' = loads
    /\ howlPlaying' = FALSE
    /\ howlsCreated' = howlsCreated + 1

\* Mount: both effects run, in source order.
Mount ==
    /\ phase = "init"
    /\ phase' = "mounted"
    /\ SceneEffect
    /\ \E loads \in BOOLEAN : AudioEffect(loads)
    /\ UNCHANGED <<surfaceVars, uiVars, projVars>>

\* The display fires the pending frame callback.
Frame ==
    /\ rafPending
    /\ (mounted => rotationX < MaxFrames * RotXStep)
    /\ LET a == Animate(mounted, rotationX, rotationY) IN
         /\ rotationX' = a.x
         /\ rotationY' = a.y
         /\ rafPending' = a.raf
    /\ UNCHANGED <<phase, surfaceVars, scene, cameraAspect, rendererSize, mounted,
                   resizeListener, contextLost, hasCleanup, audioVars, uiVars, projVars>>

\* The host lays the drawing surface out at a new size.
Layout ==
    /\ canvas = "canvas"
    /\ \E w \in Dims, h \in Dims :
         /\ <<w, h>> # <<clientWidth, clientHeight>>
         /\ clientWidth' = w
         /\ clientHeight' = h
    /\ UNCHANGED <<phase, canvas, sceneVars, audioVars, uiVars, projVars>>

\* A window resize event reaches the registered listener.
ResizeEvent ==
    /\ resizeListener
    /\ LET r == OnResize(clientWidth, clientHeight, cameraAspect) IN
         /\ rendererSize' = r.size
         /\ cameraAspect' = r.aspect
    /\ UNCHANGED <<phase, surfaceVars, scene, rotationX, rotationY, mounted, rafPending,
                   resizeListener, contextLost, hasCleanup, audioVars, uiVars, projVars>>

\* Unmount: runs the cleanup of the scene effect when it returned one; the
\* audio effect has none.
Unmount ==
    /\ phase = "mounted"
    /\ phase' = "unmounted"
    /\ IF hasCleanup
       THEN /\ mounted' = Cleanup.mounted
            /\ resizeListener' = Cleanup.resizeListener
            /\ contextLost' = Cleanup.contextLost
       ELSE UNCHANGED <<mounted, resizeListener, contextLost>>
    /\ UNCHANGED <<surfaceVars, scene, cameraAspect, rendererSize, rotationX, rotationY,
                   rafPending, hasCleanup, audioVars, uiVars, projVars>>

\* A click on the audio button runs the toggleAudio of the last render.
ToggleAudio ==
    /\ phase \in {"init", "mounted"}
    /\ IF audioRef = "null"
       THEN UNCHANGED <<howlPlaying, playing>>
       ELSE /\ howlPlaying' = IF view.playing THEN HowlPause ELSE HowlPlay(howlLoaded)
            /\ playing' = Updater(playing)
    /\ UNCHANGED <<phase, surfaceVars, sceneVars, audioRef, howlLoaded, howlsCreated,
                   view, projVars>>

\* React re-renders Hero after a state change.
Render ==
    /\ phase = "mounted"
    /\ view.playing # playing
    /\ view' = RenderView(playing)
    /\ UNCHANGED <<phase, surfaceVars, sceneVars, audioVars, playing, projVars>>

\* ------------------------------------------------------------------------
\* Projects
\* ------------------------------------------------------------------------
\* The scroll effect: one entrance tween per card, behind a scroll trigger.
ScrollEffect ==
    /\ ~cardsBound
    /\ cardsBound' = TRUE
    /\ anims' = GsapFrom(Cards)
    /\ UNCHANGED <<phase, surfaceVars, sceneVars, audioVars, uiVars, revealed>>

\* The container's top edge crosses 80% of the viewport: the tweens play once.
ScrollTriggerFires ==
    /\ cardsBound
    /\ ~revealed
    /\ revealed' = TRUE
    /\ UNCHANGED <<phase, surfaceVars, sceneVars, audioVars, uiVars, cardsBound, anims>>

Next ==
    \/ Mount
    \/ Frame
    \/ Layout
    \/ ResizeEvent
    \/ Unmount
    \/ ToggleAudio
    \/ Render
    \/ ScrollEffect
    \/ ScrollTriggerFires

Spec == Init /\ [][Next]_vars

\* ------------------------------------------------------------------------
\* Properties
\* ------------------------------------------------------------------------
\* The step in which the effects of Hero run.
MountStep == phase = "init" /\ phase' = "mounted"
ZeroSurface == canvas = "canvas" /\ (clientWidth = 0 \/ clientHeight = 0)

\* C1: once the scene effect's cleanup has run, no step changes
\* mesh.rotation.x or mesh.rotation.y, no step makes a frame callback
\* pending, and the callback that was already scheduled leaves none pending.
C1_RotationFrozenAfterUnmount ==
    [][phase = "unmounted" =>
          /\ rotationX' = rotationX
          /\ rotationY' = rotationY
          /\ (rafPending' => rafPending)
          /\ (Frame => ~rafPending')]_vars
\* The callback scheduled before unmount has fired after it.
C1_Witness ==
    phase = "unmounted" /\ scene /\ ~mounted /\ ~rafPending /\ rotationX >= RotXStep

\* C2 (as stated): a mount on an existing surface of zero width or height
\* leaves no frame callback pending.
C2_NoLoopOnZeroSurface ==
    [][(MountStep /\ ZeroSurface) => ~rafPending']_vars
\* C2 (amended): a mount on an existing surface of zero width or height
\* completes and builds the scene like any other mount: renderer size and
\* aspect are taken from the zero-sized surface, animate() has run once and
\* its frame callback is pending.
C2_ZeroSurfaceMountStartsLoop ==
    [][(MountStep /\ ZeroSurface) =>
          /\ scene' /\ mounted' /\ rafPending' /\ resizeListener'
          /\ rotationX' = RotXStep /\ rotationY' = RotYStep
          /\ rendererSize' = SetSize(clientWidth, clientHeight)
          /\ cameraAspect' = Div(clientWidth, clientHeight)
          /\ cameraAspect'.kind \in {"NaN", "Infinity"} \cup
                 (IF clientWidth = 0 THEN {"finite"} ELSE {})]_vars
\* Mounted on a surface without area, first frame drawn, next one pending.
C2_Witness ==
    /\ phase = "mounted" /\ scene /\ rafPending
    /\ rotationX = RotXStep
    /\ rendererSize = SetSize(0, 0) /\ cameraAspect.kind = "NaN"

\* C3: after Hero unmounts the audio handle is neither playing nor held.
C3_AudioReleasedOnUnmount ==
    phase = "unmounted" => (audioRef = "null" /\ ~howlPlaying)

\* C4: with the handle present every toggleAudio negates `playing`, so two
\* toggles restore it; and whenever the render is up to date the label is
\* "Pause audio" exactly when playing and "Play audio" exactly when not,
\* with aria-pressed equal to playing.
C4_ToggleTwiceAndLabel ==
    [][/\ (ToggleAudio /\ audioRef = "howl") =>
              (playing' = ~playing /\ Updater(playing') = playing)
       /\ (view'.playing = playing') =>
              /\ (view'.label = "Pause audio" <=> playing')
              /\ (view'.label = "Play audio" <=> ~playing')
              /\ view'.ariaPressed = playing']_vars
\* Toggled on and re-rendered.
C4_Witness ==
    phase = "mounted" /\ playing /\ view.playing /\ view.label = "Pause audio"

\* C5: when the asset failed to load, toggles leave playing, the label and
\* aria-pressed at their initial values.
C5_ToggleInertWhenLoadFails ==
    (audioRef = "howl" /\ ~howlLoaded) => (~playing /\ view = RenderView(FALSE))

\* C6: every run of onResize while mounted leaves camera.aspect equal to the
\* surface's current clientWidth / clientHeight and the renderer's size equal
\* to the surface's current size.
C6_ResizeFitsSurface ==
    [][ResizeEvent =>
          /\ phase = "mounted"
          /\ cameraAspect' = Div(clientWidth', clientHeight')
          /\ rendererSize' = SetSize(clientWidth', clientHeight')]_vars
\* Frames have been drawn and the scene fits a surface of non-square shape.
C6_Witness ==
    /\ phase = "mounted" /\ scene /\ rotationX > RotXStep
    /\ clientWidth # clientHeight /\ clientHeight # 0
    /\ rendererSize = SetSize(clientWidth, clientHeight)
    /\ cameraAspect = Div(clientWidth, clientHeight)

\* C7: after the unmount of a mounted scene the resize listener is gone and
\* the graphics context is lost in every state, and no step changes the
\* camera's aspect or the renderer's size.
C7_CleanupDetachesAndReleases ==
    /\ []((phase = "unmounted" /\ scene) => (contextLost /\ ~resizeListener))
    /\ [][phase = "unmounted" => UNCHANGED <<cameraAspect, rendererSize>>]_vars
\* The surface was laid out anew after unmount and the scene did not follow.
C7_Witness ==
    /\ phase = "unmounted" /\ scene /\ contextLost
    /\ rendererSize # SetSize(clientWidth, clientHeight)

\* C8: with canvasRef.current null at mount, no scene, camera, renderer or
\* mesh exists, no frame callback is pending, no resize listener is
\* registered and no cleanup was returned, in every state.
C8_NoSceneWithoutSurface ==
    canvas = "null" =>
        /\ ~scene /\ ~mounted /\ ~rafPending /\ ~resizeListener /\ ~hasCleanup
        /\ ~contextLost
        /\ cameraAspect = NoAspect /\ rendererSize = SetSize(0, 0)
        /\ rotationX = 0 /\ rotationY = 0
\* The effects have run (the audio handle exists) without a surface.
C8_Witness ==
    phase = "mounted" /\ canvas = "null" /\ audioRef = "howl"

\* C9: once the scroll effect has run there is exactly one tween per card,
\* six in all, in document order, and each card's delay exceeds the previous
\* card's by the step 0.12.
C9_OneStaggeredTweenPerCard ==
    cardsBound =>
        /\ Len(anims) = 6
        /\ Len(Cards) = 6
        /\ \A i \in 1..Len(Cards) :
             Cardinality({k \in 1..Len(anims) : anims[k].target = Cards[i]}) = 1
        /\ \A i \in 1..Len(anims) : anims[i].target = PROJECTS[i].id
        /\ \A i \in 1..(Len(anims) - 1) :
             /\ anims[i + 1].delay > anims[i].delay
             /\ anims[i + 1].delay - anims[i].delay = 12
\* The tweens are registered and the trigger has played them.
C9_Witness ==
    cardsBound /\ revealed /\ Len(anims) = NumProjects /\ anims[NumProjects].delay = 60

\* C10: whenever the render is up to date, the handle is sounding exactly
\* when `playing` is true.
C10_UiMatchesPlayback ==
    (phase = "mounted" /\ view.playing = playing) => (howlPlaying <=> playing)

TypeOK ==
    /\ phase \in {"init", "mounted", "unmounted"}
    /\ canvas \in {"null", "canvas"}
    /\ clientWidth \in Dims /\ clientHeight \in Dims
    /\ scene \in BOOLEAN /\ mounted \in BOOLEAN /\ rafPending \in BOOLEAN
    /\ rotationX \in 0..(MaxFrames * RotXStep)
    /\ rotationY \in 0..(MaxFrames * RotYStep)
    /\ playing \in BOOLEAN /\ howlPlaying \in BOOLEAN
    /\ audioRef \in {"null", "howl"}
    /\ howlsCreated \in 0..1

=============================================================================
